---------------------------- MODULE Spec2Model ----------------------------
(***************************************************************************)
(* A model of the Mixpanel export API wrapper (src/index.js): the client   *)
(* constructor, MixpanelExportAPI.prototype.request (argument sniffing,    *)
(* validation, parameter assembly with _.defaults, signing, dispatch of    *)
(* the transport call and the delivery of its result to the continuation)  *)
(* and MixpanelExportAPI.prototype.sign.                                   *)
(*                                                                         *)
(* JavaScript values are records tagged with their typeof.  An object is   *)
(* the sequence of its own enumerable properties in insertion order.  A    *)
(* string that is signed is turned into its sequence of UTF-16 code units  *)
(* (Chars), because Array.prototype.sort compares code units.  The MD5     *)
(* digest is kept symbolic: Md5Hex(bytes) stands for the 32 hex digits of  *)
(* the digest of bytes, and two digests are equal iff their inputs are.    *)
(***************************************************************************)
EXTENDS Integers, Sequences, FiniteSets

VARIABLES
    key,            \* this.key
    secret,         \* this.secret
    options,        \* this.options
    systemOptions,  \* the module-level systemOptions object
    spec,           \* the endpoint table required from ./api_specification
    now,            \* Math.floor(Date.now() / 1000)
    frame,          \* the activation of request that ran last (its locals)
    calls,          \* per dispatched request: its transport call and its continuation
    signParams,     \* sign called on its own: the parameters object
    signSecret,     \* sign called on its own: this.secret
    signResult      \* sign called on its own: what it returned

vars ==
    <<key, secret, options, systemOptions, spec, now, frame, calls,
      signParams, signSecret, signResult>>

-----------------------------------------------------------------------------
(* Bounds of the model.                                                    *)

\* The longest argument list (after the endpoint) a caller passes to request.
MaxArgs == 3

\* The number of request calls that reach the transport.
MaxCalls == 2

\* The clock advances at most this many seconds.
MaxNow == 1

\* The largest parameters object sign is called with on its own.
MaxPairs == 3

-----------------------------------------------------------------------------
(* JavaScript values.                                                      *)

Undefined == [t |-> "undefined"]

Num(n) == [t |-> "number", n |-> n]

Str(s) == [t |-> "string", s |-> s]

Obj(props) == [t |-> "object", props |-> props]

\* The caller's continuation, function (err, doc) { ... }
Fn == [t |-> "function"]

\* The hex digest of the MD5 hash of bytes.
Md5Hex(bytes) == [t |-> "md5hex", of |-> bytes]

IsFunction(v) == v.t = "function"

IsObject(v) == v.t = "object"

\* !v
Falsy(v) ==
    \/ v.t = "undefined"
    \/ v.t = "number" /\ v.n = 0

Prop(k, v) == [k |-> k, v |-> v]

\* The own property names of an object, in insertion order.
Keys(props) == [i \in 1..Len(props) |-> props[i].k]

Has(props, k) == \E i \in 1..Len(props) : props[i].k = k

\* obj[k]
Get(props, k) ==
    IF Has(props, k)
    THEN props[CHOOSE i \in 1..Len(props) : props[i].k = k].v
    ELSE Undefined

\* obj[k] = v
Set(props, k, v) ==
    IF Has(props, k)
    THEN [i \in 1..Len(props) |-> IF props[i].k = k THEN Prop(k, v) ELSE props[i]]
    ELSE Append(props, Prop(k, v))

-----------------------------------------------------------------------------
(* Strings as code units.                                                  *)

Chars(s) ==
    CASE s = "api_key" -> <<97, 112, 105, 95, 107, 101, 121>>
      [] s = "format" -> <<102, 111, 114, 109, 97, 116>>
      [] s = "expire" -> <<101, 120, 112, 105, 114, 101>>
      [] s = "sig" -> <<115, 105, 103>>
      [] s = "funnel_id" -> <<102, 117, 110, 110, 101, 108, 95, 105, 100>>
      [] s = "type" -> <<116, 121, 112, 101>>
      [] s = "from_date" -> <<102, 114, 111, 109, 95, 100, 97, 116, 101>>
      [] s = "to_date" -> <<116, 111, 95, 100, 97, 116, 101>>
      [] s = "a" -> <<97>>
      [] s = "a1" -> <<97, 49>>
      [] s = "b" -> <<98>>
      [] s = "json" -> <<106, 115, 111, 110>>
      [] s = "xml" -> <<120, 109, 108>>
      [] s = "x" -> <<120>>
      [] s = "general" -> <<103, 101, 110, 101, 114, 97, 108>>
      [] s = "K" -> <<75>>
      [] s = "S" -> <<83>>
      [] s = "=" -> <<61>>
      [] s = "[object Object]" ->
            <<91, 111, 98, 106, 101, 99, 116, 32, 79, 98, 106, 101, 99, 116, 93>>
      [] s = "function (err, doc) {}" ->
            <<102, 117, 110, 99, 116, 105, 111, 110, 32, 40, 101, 114, 114, 44,
              32, 100, 111, 99, 41, 32, 123, 125>>

RECURSIVE Decimal(_)
\* String(n) of a non-negative integer: its base-10 digits.
Decimal(n) ==
    IF n < 10 THEN <<48 + n>> ELSE Decimal(n \div 10) \o <<48 + (n % 10)>>

\* What Array.prototype.join makes of one element: undefined is the empty
\* string, a number its digits, an object "[object Object]", a function its
\* source text.
ToStr(v) ==
    CASE v.t = "undefined" -> <<>>
      [] v.t = "number" -> Decimal(v.n)
      [] v.t = "string" -> Chars(v.s)
      [] v.t = "object" -> Chars("[object Object]")
      [] v.t = "function" -> Chars("function (err, doc) {}")

RECURSIVE KeyLess(_, _)
\* The order of two "key=value" strings by their keys alone.
KeyLess(x, y) ==
    CASE x = <<>> \/ Head(x) = 61 -> y # <<>> /\ Head(y) # 61
      [] y = <<>> \/ Head(y) = 61 -> FALSE
      [] Head(x) # Head(y) -> Head(x) < Head(y)
      [] OTHER -> KeyLess(Tail(x), Tail(y))

RECURSIVE LexLess(_, _)
\* x < y for two strings: the comparison of Array.prototype.sort without a
\* comparator, by code units.
LexLess(x, y) ==
    CASE x = <<>> -> y # <<>>
      [] y = <<>> -> FALSE
      [] Head(x) # Head(y) -> Head(x) < Head(y)
      [] OTHER -> LexLess(Tail(x), Tail(y))

RECURSIVE Insert(_, _)
Insert(x, sorted) ==
    IF sorted = <<>> THEN <<x>>
    ELSE IF LexLess(Head(sorted), x)
         THEN <<Head(sorted)>> \o Insert(x, Tail(sorted))
         ELSE <<x>> \o sorted

RECURSIVE JsSort(_)
\* array.sort()
JsSort(strings) ==
    IF strings = <<>> THEN <<>> ELSE Insert(Head(strings), JsSort(Tail(strings)))

RECURSIVE Join(_)
\* array.join('')
Join(strings) ==
    IF strings = <<>> THEN <<>> ELSE Head(strings) \o Join(Tail(strings))

\* joinPairs: pair.join('=')
joinPairs(pair) == Chars(pair.k) \o Chars("=") \o ToStr(pair.v)

\* _.pairs(parameters).map(joinPairs)
PairStrings(parameters) == [i \in 1..Len(parameters) |-> joinPairs(parameters[i])]

\* MixpanelExportAPI.prototype.sign, with this.secret as a parameter.
sign(parameters, thisSecret) ==
    Md5Hex(Join(JsSort(PairStrings(parameters))) \o Chars(thisSecret))

-----------------------------------------------------------------------------
(* lodash.                                                                 *)

RECURSIVE ZipInto(_, _, _, _)
ZipInto(result, names, values, i) ==
    IF i > Len(names) THEN result
    ELSE ZipInto(Set(result, names[i],
                     IF i <= Len(values) THEN values[i] ELSE Undefined),
                 names, values, i + 1)

\* _.zipObject(keys, values): result[keys[i]] = values[i] for every key.
zipObject(names, values) == ZipInto(<<>>, names, values, 1)

RECURSIVE FillLastWins(_, _, _)
\* An assignment of every property of the source, as _.extend makes it.
FillLastWins(dest, source, i) ==
    IF i > Len(source) THEN dest
    ELSE FillLastWins(Set(dest, source[i].k, source[i].v), source, i + 1)

RECURSIVE Fill(_, _, _)
\* One source of _.defaults: a property is assigned only where the
\* destination's value is undefined.
Fill(dest, source, i) ==
    IF i > Len(source) THEN dest
    ELSE Fill(IF Get(dest, source[i].k) = Undefined
              THEN Set(dest, source[i].k, source[i].v)
              ELSE dest,
              source, i + 1)

RECURSIVE FillAll(_, _, _)
FillAll(dest, sources, j) ==
    IF j > Len(sources) THEN dest
    ELSE FillAll(IF IsObject(sources[j]) THEN Fill(dest, sources[j].props, 1) ELSE dest,
                 sources, j + 1)

\* A merge that also writes what it has collected into its first source.
defaultsIntoSource(dest, sources) ==
    [dest    |-> FillAll(dest, sources, 1),
     sources |-> [sources EXCEPT ![1] = Obj(FillAll(sources[1].props, Tail(sources), 1))]]

\* _.defaults(dest, source1, ..., sourceN): the objects it was given, as they
\* are when it returns.  Only the destination is written; a source that is
\* not an object is skipped.
defaults(dest, sources) ==
    [dest |-> FillAll(dest, sources, 1), sources |-> sources]

-----------------------------------------------------------------------------
(* The module-level data and the constructor.                              *)

DefaultExpire == 60

defaultOptions ==
    << Prop("domain", Str("mixpanel.com")),
       Prop("apiRoot", Str("/api/2.0")),
       Prop("protocol", Str("https")),
       Prop("expire", Num(DefaultExpire)) >>

SystemOptions == << Prop("format", Str("json")) >>

\* The endpoint table of ./api_specification: the endpoint names with their
\* required argument names.
ApiSpecification ==
    [e \in {"events/top", "funnels", "annotations"} |->
        CASE e = "events/top" -> <<>>
          [] e = "funnels" -> <<"funnel_id">>
          [] e = "annotations" -> <<"from_date", "to_date">>]

\* Names that every object inherits from Object.prototype and that are no
\* entries of the table.  Object.prototype.toString is a function of length 0.
InheritedNames == {"toString"}

\* spec[endPoint]: an own entry, else the inherited member, else undefined.
\* A function read as the list of required names has its length and no
\* names; the modelled one has length 0.
Lookup(table, endPoint) ==
    IF endPoint \in DOMAIN table
    THEN [truthy |-> TRUE, names |-> table[endPoint]]
    ELSE IF endPoint \in InheritedNames
         THEN [truthy |-> TRUE, names |-> <<>>]
         ELSE [truthy |-> FALSE, names |-> <<>>]

\* The options a client is constructed with: an override of expire, the
\* other three left to their defaults.
CtorOptions == {Obj(<<Prop("expire", Num(30))>>)}

\* this.options = _.defaults(options || {}, defaultOptions)
CreateOptions(opts) ==
    defaults(IF Falsy(opts) THEN <<>> ELSE opts.props, <<Obj(defaultOptions)>>).dest

-----------------------------------------------------------------------------
(* The inputs of the model.                                                *)

\* Two option mappings a caller passes.  The first names the required
\* argument of "funnels" and overrides expire; the second overrides format
\* and carries a sig of its own.
OptionsA ==
    << Prop("type", Str("general")), Prop("expire", Num(1)), Prop("funnel_id", Num(9)) >>

OptionsB == << Prop("format", Str("xml")), Prop("sig", Str("x")) >>

\* What a caller passes in one argument position: nothing, a number, an
\* options mapping, or a function.
ArgValues == {Undefined, Num(1), Obj(OptionsA), Obj(OptionsB), Fn}

\* The argument lists of request after the endpoint.
ArgLists == UNION {[1..n -> ArgValues] : n \in 0..MaxArgs}

\* The endpoint names a caller passes: the entries of the table, an inherited
\* name and a name that is nowhere.
EndPoints == DOMAIN ApiSpecification \cup InheritedNames \cup {"nope"}

-----------------------------------------------------------------------------
(* request.                                                                *)

UnsupportedEndPoint == "The end-point is not supported by the mixpanel export api."

CallbackRequired == "A callback is required."

MissingRequiredArgument == "A required argument for this endpoint is missing."

\* args[i], counted from 1: undefined past the end of the array.
At(args, i) == IF i \in 1..Len(args) THEN args[i] ELSE Undefined

\* args.slice(0, n)
Slice(args, n) == SubSeq(args, 1, IF n < Len(args) THEN n ELSE Len(args))

NoFrame ==
    [outcome |-> "none", endPoint |-> "", args |-> <<>>, error |-> "", at |-> 0,
     id |-> 0, required |-> <<>>, options |-> Undefined, callback |-> Undefined,
     signedOver |-> <<>>, parameters |-> <<>>, requestUrl |-> <<>>,
     argsAfter |-> <<>>]

Thrown(endPoint, args, message) ==
    [NoFrame EXCEPT !.outcome = "thrown", !.endPoint = endPoint, !.args = args,
                    !.error = message, !.at = now, !.argsAfter = args]

\* url.format({protocol, hostname, pathname: path.join(apiRoot, endPoint), query})
FormatUrl(opts, endPoint, query) ==
    [protocol |-> Get(opts, "protocol"),
     hostname |-> Get(opts, "domain"),
     pathname |-> <<Get(opts, "apiRoot"), endPoint>>,
     query    |-> query]

\* Math.floor(Date.now() / 1000) + 60, whatever the client was configured with.
ExpiryDefault(t, opts) == t + DefaultExpire

\* Math.floor(Date.now() / 1000) + this.options.expire
Expiry(t, opts) == t + Get(opts, "expire").n

\* The options argument as the caller holds it after the call: the object
\* that was passed in position n + 1, as _.defaults left it.
ArgsAfter(args, n, options0, optionsAfter) ==
    IF n + 1 \in 1..Len(args) /\ ~IsFunction(options0)
    THEN [args EXCEPT ![n + 1] = optionsAfter]
    ELSE args

\* The body of request, lines 96 to 139, for an endpoint whose
\* requiredArguments is truthy.
RequestKnown(endPoint, args, requiredArguments) ==
    LET n        == Len(requiredArguments)
        required == Slice(args, n)
        options0 == At(args, n + 1)
        callback == IF IsFunction(options0) THEN options0 ELSE At(args, n + 2)
        opts     == IF IsFunction(options0) THEN Obj(<<>>) ELSE options0
    IN  IF Falsy(callback)
        THEN /\ frame' = Thrown(endPoint, args, CallbackRequired)
             /\ UNCHANGED <<systemOptions, calls>>
        ELSE IF Len(required) # n
        THEN /\ frame' = Thrown(endPoint, args, MissingRequiredArgument)
             /\ UNCHANGED <<systemOptions, calls>>
        ELSE LET merged ==
                    defaults(<<Prop("api_key", key)>>,
                             << Obj(systemOptions),
                                Obj(zipObject(requiredArguments, required)),
                                opts,
                                Obj(<<Prop("expire", Num(Expiry(now, options)))>>) >>)
                 parameters == merged.dest
                 signed     == Set(parameters, "sig", sign(parameters, secret))
             IN  /\ frame' =
                        [outcome    |-> "dispatched",
                         endPoint   |-> endPoint,
                         args       |-> args,
                         error      |-> "",
                         at         |-> now,
                         id         |-> Len(calls) + 1,
                         required   |-> required,
                         options    |-> opts,
                         callback   |-> callback,
                         signedOver |-> parameters,
                         parameters |-> signed,
                         requestUrl |-> FormatUrl(options, endPoint, signed),
                         argsAfter  |-> ArgsAfter(args, n, options0, merged.sources[3])]
                 /\ systemOptions' = merged.sources[1].props
                 /\ calls' = Append(calls,
                        [state |-> "pending", callable |-> IsFunction(callback),
                         transports |-> 1, invoked |-> 0, thrown |-> "",
                         err |-> Undefined, body |-> Undefined])

\* client.request(endPoint, args...): one call, from its first line to its
\* throw or its return.  JavaScript runs it to completion: no other call
\* starts while its activation is there.
Request ==
    /\ frame.outcome = "none"
    /\ Len(calls) < MaxCalls
    /\ \E endPoint \in EndPoints, args \in ArgLists :
          LET requiredArguments == Lookup(spec, endPoint)
          IN  IF ~requiredArguments.truthy
              THEN /\ frame' = Thrown(endPoint, args, UnsupportedEndPoint)
                   /\ UNCHANGED <<systemOptions, calls>>
              ELSE RequestKnown(endPoint, args, requiredArguments.names)
    /\ UNCHANGED <<key, secret, options, spec, now, signParams, signSecret, signResult>>

\* The call has returned or thrown: its activation is gone.
Return ==
    /\ frame.outcome # "none"
    /\ frame' = NoFrame
    /\ UNCHANGED <<key, secret, options, systemOptions, spec, now, calls,
                   signParams, signSecret, signResult>>

\* The transport call of request id completes and the function of lines 137
\* to 139 runs: callback(err, body).  The transport calls back from a later
\* turn of the event loop, never while request is running.  With failed, err
\* is an Error and there is no body; otherwise err is null and body is the
\* parsed response.  A callback that is no function makes callback(err, body)
\* throw a TypeError inside the transport's completion: nothing is delivered.
TransportCompletes ==
    /\ frame.outcome = "none"
    /\ \E id \in 1..Len(calls), failed \in BOOLEAN :
        /\ calls[id].state = "pending"
        /\ calls' = [calls EXCEPT ![id] =
               IF calls[id].callable
               THEN [@ EXCEPT !.state = "done", !.invoked = @ + 1,
                              !.err = IF failed THEN Str("Error") ELSE Str("null"),
                              !.body = IF failed THEN Undefined ELSE Str("body")]
               ELSE [@ EXCEPT !.state = "done", !.thrown = "TypeError"]]
    /\ UNCHANGED <<key, secret, options, systemOptions, spec, now, frame,
                   signParams, signSecret, signResult>>

\* A second passes between two turns of the event loop.
Tick ==
    /\ frame.outcome = "none"
    /\ now < MaxNow
    /\ now' = now + 1
    /\ UNCHANGED <<key, secret, options, systemOptions, spec, frame, calls,
                   signParams, signSecret, signResult>>

NoSignResult == [called |-> FALSE, value |-> Undefined]

\* The state after new MixpanelExportAPI(key, secret, options).
Init ==
    /\ key = Str("K")
    /\ secret = "S"
    /\ \E opts \in CtorOptions : options = CreateOptions(opts)
    /\ systemOptions = SystemOptions
    /\ spec = ApiSpecification
    /\ now = 0
    /\ frame = NoFrame
    /\ calls = <<>>
    /\ signParams = <<>>
    /\ signSecret = "S"
    /\ signResult = NoSignResult

Next ==
    \/ Request
    \/ Return
    \/ TransportCompletes
    \/ Tick

Spec == Init /\ [][Next]_vars

-----------------------------------------------------------------------------
(* sign on its own: a caller builds a parameters object and has it signed, *)
(* and builds the same pairs again in another order.                       *)

SignKeys == {"a", "a1", "b"}

SignValues == {Num(1), Num(10), Str("x")}

SignSecrets == {"S", "x"}

SignPairs == {Prop(k, v) : k \in SignKeys, v \in SignValues}

\* The parameters objects: up to MaxPairs pairs, no key twice.
SignMaps ==
    {m \in UNION {[1..n -> SignPairs] : n \in 0..MaxPairs} :
        \A i, j \in 1..Len(m) : m[i].k = m[j].k => i = j}

Range(f) == {f[i] : i \in DOMAIN f}

\* client.sign(parameters)
Sign ==
    /\ signResult' = [called |-> TRUE, value |-> sign(signParams, signSecret)]
    /\ UNCHANGED <<key, secret, options, systemOptions, spec, now, frame, calls,
                   signParams, signSecret>>

\* The caller builds the same pairs in another insertion order.
Reinsert ==
    /\ \E m \in SignMaps :
          /\ m # signParams
          /\ Range(m) = Range(signParams)
          /\ signParams' = m
    /\ UNCHANGED <<key, secret, options, systemOptions, spec, now, frame, calls,
                   signSecret, signResult>>

InitSign ==
    /\ key = Str("K")
    /\ secret = "S"
    /\ \E opts \in CtorOptions : options = CreateOptions(opts)
    /\ systemOptions = SystemOptions
    /\ spec = ApiSpecification
    /\ now = 0
    /\ frame = NoFrame
    /\ calls = <<>>
    /\ signParams \in SignMaps
    /\ signSecret \in SignSecrets
    /\ signResult = NoSignResult

NextSign ==
    \/ Sign
    \/ Reinsert

SpecSign == InitSign /\ [][NextSign]_vars

-----------------------------------------------------------------------------
(* What the properties below speak of.                                     *)

\* request has dispatched the transport call.
Dispatched == frame.outcome = "dispatched"

\* request has thrown the error with this message.
Threw(message) == frame.outcome = "thrown" /\ frame.error = message

\* The endpoint of the call is an entry of the endpoint table.
InTable == frame.endPoint \in DOMAIN ApiSpecification

\* The required argument names of the call's endpoint.
RequiredNames == Lookup(ApiSpecification, frame.endPoint).names

\* The call's argument list ends with the continuation.
EndsWithContinuation ==
    Len(frame.args) > 0 /\ IsFunction(frame.args[Len(frame.args)])

\* The number of required values the caller supplied: the arguments before
\* the continuation, less the options mapping when one precedes it.
SuppliedRequired ==
    LET rest == SubSeq(frame.args, 1, Len(frame.args) - 1)
    IN  IF Len(rest) > 0 /\ IsObject(rest[Len(rest)]) THEN Len(rest) - 1 ELSE Len(rest)

\* The options mapping the caller passed after the required values, if any.
PassedOptions ==
    LET o == At(frame.args, Len(RequiredNames) + 1)
    IN  IF IsObject(o) THEN o.props ELSE <<>>

\* The value the caller passed for the required argument name k.
PassedRequired(k) ==
    IF \E i \in 1..Len(RequiredNames) : RequiredNames[i] = k
    THEN At(frame.args, CHOOSE i \in 1..Len(RequiredNames) : RequiredNames[i] = k)
    ELSE Undefined

\* The value the caller supplied under k: the required value, and where
\* that is undefined the option.
Supplied(k) ==
    IF PassedRequired(k) # Undefined THEN PassedRequired(k) ELSE Get(PassedOptions, k)

\* A parameter map without its sig entry.
WithoutSig(props) == SelectSeq(props, LAMBDA p : p.k # "sig")

-----------------------------------------------------------------------------
(* C1 to C3: validation.                                                   *)

\* C1: for an endpoint of the table with N required argument names, a call
\* whose argument list ends with a continuation and supplies fewer or more
\* than N required values throws the missing-required-argument error.
C1_WrongCountThrowsMissingArgument ==
    (/\ frame.outcome # "none"
     /\ InTable
     /\ EndsWithContinuation
     /\ SuppliedRequired # Len(RequiredNames))
        => Threw(MissingRequiredArgument)

\* C2: for an endpoint of the table, a call whose argument list holds no
\* function throws the missing-callback error and issues no transport call.
C2_NoContinuationThrowsCallbackRequired ==
    (/\ frame.outcome # "none"
     /\ InTable
     /\ \A i \in 1..Len(frame.args) : ~IsFunction(frame.args[i]))
        => Threw(CallbackRequired)

\* C3: for an endpoint name that is no entry of the table, request throws the
\* unsupported-endpoint error and issues no transport call.
C3_UnknownEndPointThrowsUnsupported ==
    (frame.outcome # "none" /\ ~InTable) => Threw(UnsupportedEndPoint)

-----------------------------------------------------------------------------
(* C4 to C6: the layers of the parameter map.                              *)

\* C4 as stated: in every dispatched call the expire entry is the clock plus
\* the configured expiry seconds, whatever expire the caller supplied.
C4_ExpireIsAlwaysComputed ==
    Dispatched =>
        Get(frame.signedOver, "expire") = Num(frame.at + Get(options, "expire").n)

\* C4 as amended: in every dispatched call the expire entry is the caller's
\* expire where the caller supplied a defined one, and otherwise the clock
\* plus the configured expiry seconds.
C4_ExpireIsTheCallersElseComputed ==
    Dispatched =>
        Get(frame.signedOver, "expire") =
            IF Supplied("expire") # Undefined
            THEN Supplied("expire")
            ELSE Num(frame.at + Get(options, "expire").n)

\* A call was dispatched whose options carry expire: 1, and expire is 1.
C4_Witness ==
    /\ Dispatched
    /\ Get(PassedOptions, "expire") = Num(1)
    /\ Get(frame.signedOver, "expire") = Num(1)
    /\ Get(frame.parameters, "expire") = Num(1)

\* C5 as stated: where the options hold a key that is also a required
\* argument name, the parameter map holds the options value under it.
C5_OptionsWinOverRequired ==
    Dispatched =>
        \A i \in 1..Len(RequiredNames) :
            Has(PassedOptions, RequiredNames[i]) =>
                Get(frame.signedOver, RequiredNames[i]) = Get(PassedOptions, RequiredNames[i])

\* C5 as amended: where the options hold a key that is also a required
\* argument name, the parameter map holds the positional value under it, and
\* the options value only where the positional value is undefined.
C5_RequiredWinsOverOptions ==
    Dispatched =>
        \A i \in 1..Len(RequiredNames) :
            Has(PassedOptions, RequiredNames[i]) =>
                Get(frame.signedOver, RequiredNames[i]) =
                    IF At(frame.args, i) # Undefined
                    THEN At(frame.args, i)
                    ELSE Get(PassedOptions, RequiredNames[i])

\* "funnels" was called with funnel_id 1 and the options funnel_id: 9, and
\* the parameter map holds 1.
C5_Witness ==
    /\ Dispatched
    /\ frame.endPoint = "funnels"
    /\ At(frame.args, 1) = Num(1)
    /\ Get(PassedOptions, "funnel_id") = Num(9)
    /\ Get(frame.signedOver, "funnel_id") = Num(1)

\* C6: in every dispatched call the parameter map has format "json",
\* whatever the caller passed.
C6_FormatIsJson ==
    Dispatched =>
        /\ Get(frame.signedOver, "format") = Str("json")
        /\ Get(frame.parameters, "format") = Str("json")
        /\ Get(frame.requestUrl.query, "format") = Str("json")

\* A call was dispatched whose options carry format: "xml".
C6_Witness ==
    /\ Dispatched
    /\ Get(PassedOptions, "format") = Str("xml")
    /\ Get(frame.parameters, "format") = Str("json")

-----------------------------------------------------------------------------
(* C7: the signature.                                                      *)

\* x comes before y in the order of code units: at the first place where
\* they differ x has the smaller unit, or x is a proper prefix of y.
Before(x, y) ==
    \E i \in 1..Len(y) :
        /\ i <= Len(x) + 1
        /\ \A j \in 1..(i - 1) : x[j] = y[j]
        /\ (i = Len(x) + 1 \/ x[i] < y[i])

\* The "key=value" strings of a parameters object, as a set.
KeyValueStrings(parameters) ==
    {Chars(parameters[i].k) \o <<61>> \o ToStr(parameters[i].v) : i \in 1..Len(parameters)}

\* The strings of a set in ascending order.
Ascending(strings) ==
    CHOOSE seq \in [1..Cardinality(strings) -> strings] :
        \A i, j \in 1..Cardinality(strings) : i < j => Before(seq[i], seq[j])

RECURSIVE Concatenated(_, _)
\* seq[i] followed by the strings after it, with nothing between them.
Concatenated(seq, i) ==
    IF i > Len(seq) THEN <<>> ELSE seq[i] \o Concatenated(seq, i + 1)

\* C7: sign returns the digest of the "key=value" strings of the map, sorted
\* as whole strings in ascending order and concatenated, with the secret
\* appended; every insertion order of the same pairs has this one result.
C7_SignIsDigestOfSortedPairsThenSecret ==
    signResult.called =>
        signResult.value =
            Md5Hex(Concatenated(Ascending(KeyValueStrings(signParams)), 1)
                   \o Chars(signSecret))

\* sign has returned for a map that holds the keys a and a1, whose order as
\* keys is not their order as "key=value" strings, and the map is now built
\* with a1 after a.
C7_Witness ==
    /\ signResult.called
    /\ \E i, j \in 1..Len(signParams) :
          /\ i < j
          /\ signParams[i].k = "a"
          /\ signParams[j].k = "a1"
          /\ Before(Chars("a1") \o <<61>> \o ToStr(signParams[j].v),
                    Chars("a") \o <<61>> \o ToStr(signParams[i].v))

-----------------------------------------------------------------------------
(* C8 to C10: the transport call, the sig entry and the shared state.      *)

\* C8: every call that passed validation has issued exactly one transport
\* call, its continuation is invoked at most once and never while request
\* runs, and once the transport call has completed it has been invoked
\* exactly once, with an error on failure and with a body on success.
C8_ContinuationInvokedExactlyOnce ==
    \A id \in 1..Len(calls) :
        /\ calls[id].transports = 1
        /\ calls[id].invoked <= 1
        /\ calls[id].state = "pending" => calls[id].invoked = 0
        /\ (Dispatched /\ frame.id = id) => calls[id].invoked = 0
        /\ calls[id].state = "done" =>
              /\ calls[id].invoked = 1
              /\ calls[id].thrown = ""
              /\ (calls[id].err = Str("null")) # (calls[id].body = Undefined)

\* C9: in every dispatched call the map handed to sign has no sig key, and
\* the map of the URL has exactly one sig entry, the signature of all its
\* other entries.
C9_SigIsNotSigned ==
    Dispatched =>
        /\ ~Has(frame.signedOver, "sig")
        /\ Cardinality({i \in 1..Len(frame.requestUrl.query) :
                            frame.requestUrl.query[i].k = "sig"}) = 1
        /\ Get(frame.requestUrl.query, "sig") =
                sign(WithoutSig(frame.requestUrl.query), secret)

\* The entry of the parameter map under k as the call's own arguments, the
\* client and the clock give it: the first defined value among the API key,
\* the format constant, the required value, the option and the expiry.
OwnValue(f, k) ==
    LET names    == Lookup(ApiSpecification, f.endPoint).names
        o        == At(f.args, Len(names) + 1)
        opts     == IF IsObject(o) THEN o.props ELSE <<>>
        named    == {i \in 1..Len(names) : names[i] = k}
        layers   == << IF k = "api_key" THEN key ELSE Undefined,
                       IF k = "format" THEN Str("json") ELSE Undefined,
                       IF named # {} THEN At(f.args, CHOOSE i \in named : TRUE)
                                     ELSE Undefined,
                       Get(opts, k),
                       IF k = "expire"
                       THEN Num(f.at + Get(options, "expire").n) ELSE Undefined >>
        defined  == {i \in 1..5 : layers[i] # Undefined}
    IN  IF defined = {} THEN Undefined
        ELSE layers[CHOOSE i \in defined : \A j \in defined : i <= j]

\* The keys of the parameter map of a call: api_key, format, the required
\* names, the keys of the options and expire.
OwnKeys(f) ==
    LET names == Lookup(ApiSpecification, f.endPoint).names
        o     == At(f.args, Len(names) + 1)
        opts  == IF IsObject(o) THEN o.props ELSE <<>>
    IN  {"api_key", "format", "expire"} \cup Range(names) \cup Range(Keys(opts))

\* C10: a step of request leaves the client's key, secret and options, the
\* endpoint table, the system constants and the caller's arguments as they
\* were, and what it signs and sends is given by the call's own arguments,
\* the client and the clock alone, whatever calls are in flight.
C10_CallsShareNothing ==
    [][/\ key' = key
       /\ secret' = secret
       /\ options' = options
       /\ spec' = spec
       /\ systemOptions' = systemOptions
       /\ frame'.outcome = "dispatched" =>
             /\ frame'.argsAfter = frame'.args
             /\ Range(frame'.signedOver) =
                    {Prop(k, OwnValue(frame', k)) : k \in OwnKeys(frame')}
             /\ frame'.parameters =
                    Set(frame'.signedOver, "sig", sign(frame'.signedOver, secret))
             /\ frame'.requestUrl.query = frame'.parameters]_vars

\* A second call is dispatched with an options mapping while the transport
\* call of the first is still pending.
C10_Witness ==
    /\ Dispatched
    /\ frame.id = 2
    /\ calls[1].state = "pending"
    /\ PassedOptions # <<>>

=============================================================================
